---- MODULE Spec2Model ----
(***************************************************************************)
(* reverb: an SSH request/response harness (src/src/main.rs).              *)
(*                                                                         *)
(* One connection is modelled between a client end and a server end.       *)
(*   - The client end is either the repository's Session driven by         *)
(*     run_client (connect, send, close), or a foreign SSH client that may *)
(*     send any channel message.                                           *)
(*   - The server end is either the repository's ServerHandler, or a       *)
(*     foreign SSH server that may reject the key, refuse the channel and  *)
(*     emit any sequence of channel events.                                *)
(* The SSH engine (russh) is the environment: c2s and s2c are what each    *)
(* end has transmitted, in order; rd and srd are how far the other end has *)
(* read. Events already transmitted stay readable after the connection     *)
(* has gone down, and the read that finds nothing left then reports the    *)
(* end of the stream.                                                      *)
(***************************************************************************)
EXTENDS Integers, Sequences, FiniteSets, TLC

VARIABLES
    client_kind,    \* "Session" | "foreign"
    server_kind,    \* "ServerHandler" | "foreign"
    input_data,     \* the bytes handed to Session::send
    cpc,            \* where run_client / Session is
    auth_res,       \* "none" | "true" | "false": result of authenticate_publickey
    received_data,  \* send's accumulator
    sink,           \* the bytes written to stdout by send
    send_ret,       \* "none" | "Ok" | "Err": how send returned
    err,            \* the error run_client ended with, "none" if none
    conn,           \* "none" | "up" | "lost" | "timeout" | "disconnected" | "aborted"
    c2s,            \* messages the client end transmitted (all of them, in order)
    srd,            \* how many of c2s the server end has handled
    s2c,            \* messages the server end transmitted (all of them, in order)
    rd,             \* how many of s2c the client end has read
    chan,           \* per channel id: "Opening" | "Open" | "Closed", as the events
                    \* handled by the server end define it (section 4.2)
    outcome,        \* what send returned to run_client (`code`), once it returned Ok
    calls,          \* the calls the process (run_client and Session, or run_server)
                    \* has made on the engine and on stdout, in order
    spc,            \* where run_server is; "off" in a client process
    serr,           \* the error run_server returned, "none" if none
    peers           \* per inbound connection of run_server: its state, its handler,
                    \* the events handled on it and what was transmitted on it

vars == <<client_kind, server_kind, input_data, cpc, auth_res, received_data, sink,
          send_ret, err, conn, c2s, srd, s2c, rd, chan, outcome, calls, spc, serr, peers>>

\* the state of run_server and of its connections
server_vars == <<spc, serr, peers>>

\* the state of the one connection of the client process
link_vars == <<client_kind, server_kind, input_data, cpc, auth_res, received_data, sink,
               send_ret, err, conn, c2s, srd, s2c, rd, chan, outcome>>

(***************************************************************************)
(* Bounds                                                                  *)
(***************************************************************************)
MaxLen == 3         \* longest payload handed to send
MaxEvents == 4      \* channel events a foreign server emits
MaxMsgs == 4        \* messages a foreign client sends
NumPeers == 2       \* inbound connections of run_server
MaxServed == 4      \* events run_server's handlers are called with, over all connections

(***************************************************************************)
(* Bytes and text                                                          *)
(***************************************************************************)
\* "foo", the payload of run_client
foo == <<102, 111, 111>>

\* "Server processed: ", the literal of the format! in ServerHandler::data
ServerPrefix ==
    <<83, 101, 114, 118, 101, 114, 32, 112, 114, 111, 99, 101, 115, 115, 101, 100, 58, 32>>

\* bytes payloads are built from: 'f', 'o', 0xC3 and 0xA9 (0xC3 0xA9 is U+00E9)
PayloadBytes == {102, 111, 195, 169}

RECURSIVE SeqsUpTo(_, _)
SeqsUpTo(S, n) ==
    IF n = 0 THEN {<<>>}
    ELSE LET shorter == SeqsUpTo(S, n - 1)
         IN  shorter \cup {Append(s, b) : s \in shorter, b \in S}

Payloads == SeqsUpTo(PayloadBytes, MaxLen)

IsCont(b) == b >= 128 /\ b <= 191

\* std::str::from_utf8: the number of bytes of the well-formed UTF-8 sequence
\* starting at s[i], 0 if there is none
Utf8SeqLen(s, i) ==
    LET b == s[i]
        n == Len(s)
    IN  IF b < 128 THEN 1
        ELSE IF b >= 194 /\ b <= 223
             THEN IF i + 1 <= n /\ IsCont(s[i + 1]) THEN 2 ELSE 0
        ELSE IF b >= 224 /\ b <= 239
             THEN IF /\ i + 2 <= n
                     /\ IsCont(s[i + 1])
                     /\ IsCont(s[i + 2])
                     /\ (b = 224 => s[i + 1] >= 160)
                     /\ (b = 237 => s[i + 1] <= 159)
                  THEN 3 ELSE 0
        ELSE IF b >= 240 /\ b <= 244
             THEN IF /\ i + 3 <= n
                     /\ IsCont(s[i + 1])
                     /\ IsCont(s[i + 2])
                     /\ IsCont(s[i + 3])
                     /\ (b = 240 => s[i + 1] >= 144)
                     /\ (b = 244 => s[i + 1] <= 143)
                  THEN 4 ELSE 0
        ELSE 0

RECURSIVE Utf8From(_, _)
Utf8From(s, i) ==
    IF i > Len(s) THEN TRUE
    ELSE LET k == Utf8SeqLen(s, i)
         IN  k > 0 /\ Utf8From(s, i + k)

\* std::str::from_utf8(data) is Ok
IsUtf8(s) == Utf8From(s, 1)

\* a responder that sends the marker without the text it received
ResponseMarkerOnly(s) == ServerPrefix

\* format!("Server processed: {}", received_str).as_bytes().to_vec()
Response(s) == ServerPrefix \o s

(***************************************************************************)
(* Messages                                                                *)
(***************************************************************************)
Keys == {"K1", "K2"}
ChannelIds == {0, 1}
\* the id of the one channel Session::send opens
ClientChannel == 0

CMsg(t, c, d, u, k) == [type |-> t, ch |-> c, data |-> d, user |-> u, key |-> k]
AuthMsg(u, k) == CMsg("auth", 0, <<>>, u, k)
OpenMsg(c) == CMsg("open", c, <<>>, "", "")
DataMsg(c, d) == CMsg("data", c, d, "", "")
CloseMsg(c) == CMsg("close", c, <<>>, "", "")

SMsg(t, c, d, x) == [type |-> t, ch |-> c, data |-> d, code |-> x]
AuthReply(ok) == SMsg(IF ok THEN "auth_success" ELSE "auth_failure", 0, <<>>, 0)
OpenConfirm(c) == SMsg("open_confirmation", c, <<>>, 0)
OpenFailure(c) == SMsg("open_failure", c, <<>>, 0)
Data(c, d) == SMsg("data", c, d, 0)
ExitStatus(c, x) == SMsg("exit_status", c, <<>>, x)
Close(c) == SMsg("close", c, <<>>, 0)
Success(c) == SMsg("success", c, <<>>, 0)
Eof(c) == SMsg("eof", c, <<>>, 0)

\* what a foreign client puts in a data message
ForeignPayloads == {<<111>>, <<255>>}

\* the channel events a foreign server emits once the channel is open
ForeignEvents ==
    {Data(ClientChannel, <<97>>), Data(ClientChannel, <<98, 99>>),
     ExitStatus(ClientChannel, 0), Close(ClientChannel), Eof(ClientChannel)}

\* the messages a foreign client sends
ForeignMsgs ==
    {AuthMsg(u, k) : u \in {"username"}, k \in Keys}
        \cup {OpenMsg(c) : c \in ChannelIds}
        \cup {CloseMsg(c) : c \in ChannelIds}
        \cup {DataMsg(c, d) : c \in ChannelIds, d \in ForeignPayloads}

\* the inbound connections
Peers == 1..NumPeers

\* a connection that has not come in
NoPeer ==
    [state |-> "none", handler |-> "none", recv |-> <<>>, sent |-> <<>>,
     chan |-> [c \in ChannelIds |-> "Opening"]]

\* run_client has not got a value from send
NoOutcome == [returned |-> FALSE, bytes |-> <<>>, code |-> -1]

(***************************************************************************)
(* Initial states                                                          *)
(***************************************************************************)
Sides ==
    {<<"Session", "ServerHandler">>, <<"Session", "foreign">>, <<"foreign", "ServerHandler">>}

Init ==
    /\ \E k \in Sides :
          /\ client_kind = k[1]
          /\ server_kind = k[2]
    /\ input_data \in (IF server_kind = "ServerHandler" /\ client_kind = "Session"
                       THEN Payloads ELSE {foo})
    /\ cpc = IF client_kind = "Session" THEN "load_key" ELSE "foreign"
    /\ auth_res = "none"
    /\ received_data = <<>>
    /\ sink = <<>>
    /\ send_ret = "none"
    /\ err = "none"
    /\ conn = IF client_kind = "Session" THEN "none" ELSE "up"
    /\ c2s = <<>>
    /\ srd = 0
    /\ s2c = <<>>
    /\ rd = 0
    /\ chan = [c \in ChannelIds |-> "Opening"]
    /\ outcome = NoOutcome
    /\ calls = <<>>
    /\ spc = "off"
    /\ serr = "none"
    /\ peers = [p \in Peers |-> NoPeer]

(***************************************************************************)
(* The client: run_client and Session                                      *)
(***************************************************************************)
client_vars == <<cpc, auth_res, received_data, sink, send_ret, err, rd, outcome, calls>>

\* Session::send: Ok(received_data), a Vec<u8>; the exit status the loop saw is
\* not part of it (code -1: none)
SendOutcome(acc, exit_status) == [returned |-> TRUE, bytes |-> acc, code |-> -1]

\* one more call made by the client
Call(name) == calls' = Append(calls, name)

\* an operation of run_client returned Err: `?` ends run_client with it
Fail(e) ==
    /\ cpc' = "exit"
    /\ err' = e

\* the next unread message from the server end, if there is one
HasNext == rd < Len(s2c)
NextMsg == s2c[rd + 1]
\* nothing left to read and the connection is gone
StreamEnded == rd = Len(s2c) /\ conn # "up"

\* Session::connect: load_secret_key(key_path, None)?
LoadSecretKey ==
    /\ client_kind = "Session"
    /\ cpc = "load_key"
    /\ \/ /\ cpc' = "connect"
          /\ err' = err
       \/ Fail("KeyLoadError")
    /\ Call("load_secret_key")
    /\ outcome' = outcome
    /\ UNCHANGED <<server_vars, client_kind, server_kind, input_data, auth_res, received_data, sink,
                   send_ret, conn, c2s, srd, s2c, rd, chan>>

\* a connect whose failure to reach the address does not end it
ClientConnectUnchecked ==
    /\ client_kind = "Session"
    /\ cpc = "connect"
    /\ \/ /\ cpc' = "auth"
          /\ conn' = "up"
          /\ err' = err
       \/ /\ cpc' = "auth"
          /\ conn' = conn
          /\ err' = err
    /\ Call("client::connect")
    /\ outcome' = outcome
    /\ UNCHANGED <<server_vars, client_kind, server_kind, input_data, auth_res, received_data, sink,
                   send_ret, c2s, srd, s2c, rd, chan>>

\* Session::connect: client::connect(config, addrs, sh).await?
ClientConnect ==
    /\ client_kind = "Session"
    /\ cpc = "connect"
    /\ \/ /\ cpc' = "auth"
          /\ conn' = "up"
          /\ err' = err
       \/ /\ Fail("ConnectError")
          /\ conn' = conn
    /\ Call("client::connect")
    /\ outcome' = outcome
    /\ UNCHANGED <<server_vars, client_kind, server_kind, input_data, auth_res, received_data, sink,
                   send_ret, c2s, srd, s2c, rd, chan>>

\* Session::connect: session.authenticate_publickey(user_string, key_pair), request sent
AuthenticatePublickey ==
    /\ client_kind = "Session"
    /\ cpc = "auth"
    /\ \/ /\ conn = "up"
          /\ c2s' = Append(c2s, AuthMsg("username", "K1"))
          /\ cpc' = "auth_wait"
          /\ err' = err
       \/ /\ conn # "up"
          /\ Fail("Disconnected")
          /\ c2s' = c2s
    /\ Call("authenticate_publickey")
    /\ outcome' = outcome
    /\ UNCHANGED <<server_vars, client_kind, server_kind, input_data, auth_res, received_data, sink,
                   send_ret, conn, srd, s2c, rd, chan>>

\* a connect that does not look at the result of the authentication
ConnectResultUnchecked(res) == "Ok"

\* Session::connect: `if !auth_res { bail!("Authentication failed") }`, Ok(Self { session })
ConnectResult(res) == IF res = "true" THEN "Ok" ELSE "AuthenticationFailed"

\* Session::connect: .await? of the authentication and the check of its result;
\* after Ok, run_client calls send
AuthResult ==
    /\ client_kind = "Session"
    /\ cpc = "auth_wait"
    /\ \/ /\ HasNext
          /\ NextMsg.type \in {"auth_success", "auth_failure"}
          /\ rd' = rd + 1
          /\ auth_res' = IF NextMsg.type = "auth_success" THEN "true" ELSE "false"
          /\ IF ConnectResult(auth_res') = "Ok"
             THEN cpc' = "open" /\ err' = err
             ELSE Fail(ConnectResult(auth_res'))
       \/ /\ StreamEnded
          /\ Fail("Disconnected")
          /\ UNCHANGED <<rd, auth_res>>
    /\ calls' = calls
    /\ outcome' = outcome
    /\ UNCHANGED <<server_vars, client_kind, server_kind, input_data, received_data, sink, send_ret,
                   conn, c2s, srd, s2c, chan>>

\* Session::send: self.session.channel_open_session(), request sent
ChannelOpenSession ==
    /\ client_kind = "Session"
    /\ cpc = "open"
    /\ \/ /\ conn = "up"
          /\ c2s' = Append(c2s, OpenMsg(ClientChannel))
          /\ cpc' = "open_wait"
          /\ UNCHANGED <<err, send_ret>>
       \/ /\ conn # "up"
          /\ Fail("SendError")
          /\ send_ret' = "Err"
          /\ c2s' = c2s
    /\ Call("channel_open_session")
    /\ outcome' = outcome
    /\ UNCHANGED <<server_vars, client_kind, server_kind, input_data, auth_res, received_data, sink,
                   conn, srd, s2c, rd, chan>>

\* a channel open that takes any reply of the peer for the acknowledgement
OpenResultAnyReply(msg) ==
    IF msg.type \in {"open_confirmation", "open_failure"} THEN "Ok" ELSE "pending"

\* Session::send: what `channel_open_session().await` makes of the peer's reply
OpenResult(msg) ==
    IF msg.type = "open_confirmation" THEN "Ok"
    ELSE IF msg.type = "open_failure" THEN "ChannelOpenFailure"
    ELSE "pending"

\* Session::send: .await? of the channel open
ChannelOpenResult ==
    /\ client_kind = "Session"
    /\ cpc = "open_wait"
    /\ \/ /\ HasNext
          /\ OpenResult(NextMsg) = "Ok"
          /\ rd' = rd + 1
          /\ cpc' = "write"
          /\ UNCHANGED <<err, send_ret>>
       \/ /\ HasNext
          /\ OpenResult(NextMsg) = "ChannelOpenFailure"
          /\ rd' = rd + 1
          /\ Fail("ChannelOpenFailure")
          /\ send_ret' = "Err"
       \/ /\ HasNext
          /\ OpenResult(NextMsg) = "pending"
          /\ rd' = rd + 1
          /\ UNCHANGED <<cpc, err, send_ret>>
       \/ /\ StreamEnded
          /\ Fail("Disconnected")
          /\ send_ret' = "Err"
          /\ rd' = rd
    /\ calls' = calls
    /\ outcome' = outcome
    /\ UNCHANGED <<server_vars, client_kind, server_kind, input_data, auth_res, received_data, sink,
                   conn, c2s, srd, s2c, chan>>

\* Session::send: channel.data(input_data).await?
ChannelData ==
    /\ client_kind = "Session"
    /\ cpc = "write"
    /\ \/ /\ conn = "up"
          /\ c2s' = Append(c2s, DataMsg(ClientChannel, input_data))
          /\ cpc' = "loop"
          /\ UNCHANGED <<err, send_ret>>
       \/ /\ conn # "up"
          /\ Fail("SendError")
          /\ send_ret' = "Err"
          /\ c2s' = c2s
    /\ Call("channel.data")
    /\ outcome' = outcome
    /\ UNCHANGED <<server_vars, client_kind, server_kind, input_data, auth_res, received_data, sink,
                   conn, srd, s2c, rd, chan>>

\* a match that takes the end-of-file of the peer for the end of the exchange
MatchArmEofEnds(msg) ==
    IF msg.type = "data" THEN "Data"
    ELSE IF msg.type \in {"exit_status", "eof"} THEN "ExitStatus"
    ELSE "_"

\* Session::send: the arm of `match msg` a message takes
MatchArm(msg) ==
    IF msg.type = "data" THEN "Data"
    ELSE IF msg.type = "exit_status" THEN "ExitStatus"
    ELSE "_"

\* a loop that logs the exit status and goes on waiting
BreaksNever(arm) == FALSE

\* Session::send: the arms that `break`
Breaks(arm) == arm = "ExitStatus"

\* Session::send: received_data.extend_from_slice(data)
ExtendFromSlice(acc, bytes) == acc \o bytes

\* Session::send: the data of the ChannelMsg::Data the loop is processing
Chunk == s2c[rd].data

\* a write that reports success and writes nothing
WriteNothing(out, bytes) == out

\* Session::send: stdout.write_all(data), the sink after it
WriteAll(out, bytes) == out \o bytes

\* Session::send: one turn of the receive loop, `channel.wait().await` and the match
\* on the message; Ok(received_data) after a break, and run_client goes on to close
ReceiveLoop ==
    /\ client_kind = "Session"
    /\ cpc = "loop"
    /\ Call("channel.wait")
    /\ \/ /\ StreamEnded                       \* None: `else { break }`
          /\ cpc' = "close"
          /\ send_ret' = "Ok"
          /\ outcome' = SendOutcome(received_data, -1)
          /\ rd' = rd
       \/ /\ HasNext
          /\ MatchArm(NextMsg) = "Data"
          /\ rd' = rd + 1
          /\ cpc' = "write_all"
          /\ UNCHANGED <<send_ret, outcome>>
       \/ /\ HasNext
          /\ MatchArm(NextMsg) # "Data"
          /\ rd' = rd + 1
          /\ IF Breaks(MatchArm(NextMsg))
             THEN /\ cpc' = "close"
                  /\ send_ret' = "Ok"
                  /\ outcome' = SendOutcome(received_data, NextMsg.code)
             ELSE UNCHANGED <<cpc, send_ret, outcome>>
    /\ UNCHANGED <<server_vars, client_kind, server_kind, input_data, auth_res, received_data, sink,
                   err, conn, c2s, srd, s2c, chan>>

\* Session::send, Data arm: stdout.write_all(data).await?; a failed write may
\* have written a part of the data
StdoutWriteAll ==
    /\ client_kind = "Session"
    /\ cpc = "write_all"
    /\ Call("stdout.write_all")
    /\ \/ /\ sink' = WriteAll(sink, Chunk)
          /\ cpc' = "flush"
          /\ UNCHANGED <<send_ret, err>>
       \/ /\ \E n \in 0..Len(Chunk) :
                /\ n < Len(Chunk) \/ n = 0
                /\ sink' = sink \o SubSeq(Chunk, 1, n)
          /\ Fail("IoError")
          /\ send_ret' = "Err"
    /\ UNCHANGED <<server_vars, client_kind, server_kind, input_data, auth_res, received_data, conn,
                   c2s, srd, s2c, rd, chan, outcome>>

\* Session::send, Data arm: stdout.flush().await?
StdoutFlush ==
    /\ client_kind = "Session"
    /\ cpc = "flush"
    /\ Call("stdout.flush")
    /\ \/ /\ cpc' = "extend"
          /\ UNCHANGED <<send_ret, err>>
       \/ /\ Fail("IoError")
          /\ send_ret' = "Err"
    /\ UNCHANGED <<server_vars, client_kind, server_kind, input_data, auth_res, received_data, sink,
                   conn, c2s, srd, s2c, rd, chan, outcome>>

\* Session::send, Data arm: received_data.extend_from_slice(data), and the loop goes round
Extend ==
    /\ client_kind = "Session"
    /\ cpc = "extend"
    /\ received_data' = ExtendFromSlice(received_data, Chunk)
    /\ cpc' = "loop"
    /\ UNCHANGED <<server_vars, client_kind, server_kind, input_data, auth_res, sink, send_ret, err,
                   conn, c2s, srd, s2c, rd, chan, outcome, calls>>

\* a close that leaves the connection as it is
DisconnectNothing(c) == c

\* Session::close: what session.disconnect(ByApplication, ..) does to a live connection
Disconnect(c) == "disconnected"

\* Session::close: self.session.disconnect(ByApplication, ..).await?
SessionClose ==
    /\ client_kind = "Session"
    /\ cpc = "close"
    /\ \/ /\ conn = "up"
          /\ conn' = Disconnect(conn)
          /\ cpc' = "done"
          /\ err' = err
       \/ /\ conn # "up"
          /\ Fail("SendError")
          /\ conn' = conn
    /\ Call("disconnect")
    /\ outcome' = outcome
    /\ UNCHANGED <<server_vars, client_kind, server_kind, input_data, auth_res, received_data, sink,
                   send_ret, c2s, srd, s2c, rd, chan>>

(***************************************************************************)
(* The server: ServerHandler, one instance per connection                  *)
(***************************************************************************)
\* the server has accepted a key on this connection
Authenticated == \E i \in 1..Len(s2c) : s2c[i].type = "auth_success"

\* the messages the engine may hand to the handler next: the next one the
\* Session transmitted, or whatever a foreign client chooses to send
Incoming ==
    IF client_kind = "Session"
    THEN IF srd < Len(c2s) THEN {c2s[srd + 1]} ELSE {}
    ELSE IF Len(c2s) < MaxMsgs
         THEN {m \in ForeignMsgs :
                 /\ m.type # "auth" => Authenticated
                 /\ m.type = "open" => chan[m.ch] = "Opening"}
         ELSE {}

\* the engine hands m to the handler
Deliver(m) ==
    /\ server_kind = "ServerHandler"
    /\ conn = "up"
    /\ m \in Incoming
    /\ c2s' = IF client_kind = "Session" THEN c2s ELSE Append(c2s, m)
    /\ srd' = srd + 1

\* a server that accepts the one key it knows
AuthVerdictKnownKey(user, public_key) == public_key = "K1"

\* ServerHandler::auth_publickey: Ok(Auth::Accept)
AuthVerdict(user, public_key) == TRUE

auth_publickey ==
    \E m \in Incoming :
       /\ m.type = "auth"
       /\ Deliver(m)
       /\ s2c' = Append(s2c, AuthReply(AuthVerdict(m.user, m.key)))
       /\ UNCHANGED <<server_vars, client_kind, server_kind, input_data, client_vars, conn, chan>>

\* ServerHandler::channel_open_session: session.channel_success(channel.id()); Ok(true)
channel_open_session ==
    \E m \in Incoming :
       /\ m.type = "open"
       /\ Deliver(m)
       /\ s2c' = s2c \o <<Success(m.ch), OpenConfirm(m.ch)>>
       /\ chan' = [chan EXCEPT ![m.ch] = "Open"]
       /\ UNCHANGED <<server_vars, client_kind, server_kind, input_data, client_vars, conn>>

\* ServerHandler::channel_close: logs, Ok(())
channel_close ==
    \E m \in Incoming :
       /\ m.type = "close"
       /\ Deliver(m)
       /\ chan' = [chan EXCEPT ![m.ch] = "Closed"]
       /\ UNCHANGED <<server_vars, client_kind, server_kind, input_data, client_vars, conn, s2c>>

\* a responder that ends the exchange with an exit status after its response
DataReplyThenExit(channel, bytes) ==
    IF IsUtf8(bytes)
    THEN <<Data(channel, Response(bytes)), ExitStatus(channel, 0)>>
    ELSE <<>>

\* ServerHandler::data: what the handler passes to session.data, <<>> if it
\* returns Err before that
DataReply(channel, bytes) ==
    IF IsUtf8(bytes) THEN <<Data(channel, Response(bytes))>> ELSE <<>>

\* ServerHandler::data: Ok(()) or the Err of from_utf8
DataResult(bytes) == IF IsUtf8(bytes) THEN "Ok" ELSE "Utf8Error"

\* ServerHandler::data; an Err returned by the handler ends the connection's task
data ==
    \E m \in Incoming :
       /\ m.type = "data"
       /\ Deliver(m)
       /\ s2c' = s2c \o DataReply(m.ch, m.data)
       /\ conn' = IF DataResult(m.data) = "Ok" THEN conn ELSE "aborted"
       /\ UNCHANGED <<server_vars, client_kind, server_kind, input_data, client_vars, chan>>

(***************************************************************************)
(* A foreign server                                                        *)
(***************************************************************************)
ChannelEventTypes == {"data", "exit_status", "close", "eof", "success"}
ChannelEvents(q) == SelectSeq(q, LAMBDA e : e.type \in ChannelEventTypes)

ForeignPending(t) ==
    /\ server_kind = "foreign"
    /\ conn = "up"
    /\ srd < Len(c2s)
    /\ c2s[srd + 1].type = t

\* accepts or rejects the offered key
ForeignAuthReply ==
    /\ ForeignPending("auth")
    /\ srd' = srd + 1
    /\ \E ok \in BOOLEAN : s2c' = Append(s2c, AuthReply(ok))
    /\ UNCHANGED <<server_vars, client_kind, server_kind, input_data, client_vars, conn, c2s, chan>>

\* confirms or refuses the channel
ForeignOpenReply ==
    /\ ForeignPending("open")
    /\ srd' = srd + 1
    /\ \/ /\ s2c' = Append(s2c, OpenConfirm(c2s[srd + 1].ch))
          /\ chan' = [chan EXCEPT ![c2s[srd + 1].ch] = "Open"]
       \/ /\ s2c' = Append(s2c, OpenFailure(c2s[srd + 1].ch))
          /\ chan' = chan
    /\ UNCHANGED <<server_vars, client_kind, server_kind, input_data, client_vars, conn, c2s>>

\* takes the payload
ForeignReceive ==
    /\ ForeignPending("data")
    /\ srd' = srd + 1
    /\ UNCHANGED <<server_vars, client_kind, server_kind, input_data, client_vars, conn, c2s, s2c, chan>>

\* sends any channel event on the open channel
ForeignEmit ==
    /\ server_kind = "foreign"
    /\ conn = "up"
    /\ chan[ClientChannel] = "Open"
    /\ Len(ChannelEvents(s2c)) < MaxEvents
    /\ \E e \in ForeignEvents : s2c' = Append(s2c, e)
    /\ UNCHANGED <<server_vars, client_kind, server_kind, input_data, client_vars, conn, c2s, srd, chan>>

(***************************************************************************)
(* The connection                                                          *)
(***************************************************************************)
\* client::Config.inactivity_timeout, server::Config.inactivity_timeout (seconds)
ClientInactivityTimeout == 30
ServerInactivityTimeout == 3600

\* the Session is suspended in an await with nothing to read
ClientWaiting == cpc \in {"auth_wait", "open_wait", "loop"} /\ ~HasNext

\* nothing for the reference server to react to
ServerIdle == server_kind = "ServerHandler" => srd = Len(c2s)

\* the peer or the network drops the connection
ConnectionLost ==
    /\ conn = "up"
    /\ conn' = "lost"
    /\ UNCHANGED <<server_vars, client_kind, server_kind, input_data, client_vars, c2s, srd, s2c, chan>>

\* the client's engine force-closes a connection nothing has moved on
ClientTimeout ==
    /\ client_kind = "Session"
    /\ conn = "up"
    /\ ClientWaiting
    /\ ServerIdle
    /\ conn' = "timeout"
    /\ UNCHANGED <<server_vars, client_kind, server_kind, input_data, client_vars, c2s, srd, s2c, chan>>

\* the server's engine does the same; against the Session the shorter timeout
\* of the client comes first
ServerTimeout ==
    /\ server_kind = "ServerHandler"
    /\ conn = "up"
    /\ client_kind = "Session" => ServerInactivityTimeout < ClientInactivityTimeout
    /\ conn' = "timeout"
    /\ UNCHANGED <<server_vars, client_kind, server_kind, input_data, client_vars, c2s, srd, s2c, chan>>

(***************************************************************************)
(* Specification                                                           *)
(***************************************************************************)
Next ==
    \/ LoadSecretKey
    \/ ClientConnect
    \/ AuthenticatePublickey
    \/ AuthResult
    \/ ChannelOpenSession
    \/ ChannelOpenResult
    \/ ChannelData
    \/ ReceiveLoop
    \/ StdoutWriteAll
    \/ StdoutFlush
    \/ Extend
    \/ SessionClose
    \/ auth_publickey
    \/ channel_open_session
    \/ channel_close
    \/ data
    \/ ForeignAuthReply
    \/ ForeignOpenReply
    \/ ForeignReceive
    \/ ForeignEmit
    \/ ConnectionLost
    \/ ClientTimeout
    \/ ServerTimeout

Spec == Init /\ [][Next]_vars

TypeOK ==
    /\ cpc \in {"foreign", "load_key", "connect", "auth", "auth_wait", "open", "open_wait",
                "write", "loop", "write_all", "flush", "extend", "close", "done", "exit"}
    /\ auth_res \in {"none", "true", "false"}
    /\ send_ret \in {"none", "Ok", "Err"}
    /\ conn \in {"none", "up", "lost", "timeout", "disconnected", "aborted"}
    /\ srd \in 0..Len(c2s)
    /\ rd \in 0..Len(s2c)
    /\ \A c \in ChannelIds : chan[c] \in {"Opening", "Open", "Closed"}
    /\ spc \in {"off", "load_key", "bind", "serving", "exit"}
    /\ serr \in {"none", "KeyLoadError", "BindError"}
    /\ \A p \in Peers : peers[p].state \in {"none", "up", "gone", "aborted"}

(***************************************************************************)
(* The server process: run_server, Server and one ServerHandler per        *)
(* inbound connection                                                      *)
(***************************************************************************)
InitServer ==
    /\ client_kind = "foreign"
    /\ server_kind = "ServerHandler"
    /\ input_data = foo
    /\ cpc = "foreign"
    /\ auth_res = "none"
    /\ received_data = <<>>
    /\ sink = <<>>
    /\ send_ret = "none"
    /\ err = "none"
    /\ conn = "none"
    /\ c2s = <<>>
    /\ srd = 0
    /\ s2c = <<>>
    /\ rd = 0
    /\ chan = [c \in ChannelIds |-> "Opening"]
    /\ outcome = NoOutcome
    /\ calls = <<>>
    /\ spc = "load_key"
    /\ serr = "none"
    /\ peers = [p \in Peers |-> NoPeer]

\* a run_server that notes the error and serves all the same
ServerFailNoted(e) ==
    /\ spc' = "serving"
    /\ serr' = e

\* run_server returns Err: the `?` on the failed call
ServerFail(e) ==
    /\ spc' = "exit"
    /\ serr' = e

\* run_server: keys: vec![russh_keys::load_secret_key(&args.key, None)?]
ServerLoadKey ==
    /\ spc = "load_key"
    /\ Call("load_secret_key")
    /\ \/ /\ spc' = "bind"
          /\ serr' = serr
       \/ ServerFail("KeyLoadError")
    /\ UNCHANGED <<link_vars, peers>>

\* run_server: server.run_on_address(config, addr).await?, the bind; once bound
\* it accepts connections and does not return
RunOnAddress ==
    /\ spc = "bind"
    /\ Call("run_on_address")
    /\ \/ /\ spc' = "serving"
          /\ serr' = serr
       \/ ServerFail("BindError")
    /\ UNCHANGED <<link_vars, peers>>

\* the events all the handlers have been called with
RECURSIVE ServedUpTo(_)
ServedUpTo(n) == IF n = 0 THEN 0 ELSE Len(peers[n].recv) + ServedUpTo(n - 1)
Served == ServedUpTo(NumPeers)

\* Server::new_client: a new ServerHandler for the connection that came in
NewHandler == "ServerHandler"

new_client(p) ==
    /\ spc = "serving"
    /\ peers[p].state = "none"
    /\ peers' = [peers EXCEPT ![p].state = "up", ![p].handler = NewHandler]
    /\ UNCHANGED <<link_vars, calls, spc, serr>>

\* the peer or the network drops the connection, or it times out
peer_gone(p) ==
    /\ peers[p].state = "up"
    /\ peers' = [peers EXCEPT ![p].state = "gone"]
    /\ UNCHANGED <<link_vars, calls, spc, serr>>

\* the messages a peer sends
PeerMsgs ==
    {AuthMsg("username", "K1"), AuthMsg("root", "K2"), OpenMsg(ClientChannel),
     CloseMsg(ClientChannel)} \cup {DataMsg(ClientChannel, d) : d \in ForeignPayloads}

PeerAuthenticated(p) ==
    \E i \in 1..Len(peers[p].sent) : peers[p].sent[i].type = "auth_success"

\* the events the engine may call the handler of connection p with
PeerIncoming(p) ==
    IF spc = "serving" /\ peers[p].state = "up" /\ Served < MaxServed
    THEN {m \in PeerMsgs :
            /\ m.type # "auth" => PeerAuthenticated(p)
            /\ m.type = "open" => peers[p].chan[m.ch] = "Opening"}
    ELSE {}

\* a server whose handlers all write to the session of the first connection
SessionOfFirst(p) == 1

\* the `session: &mut ServerSession` a handler method of connection p is
\* called with: the connection's own
SessionOf(p) == p

\* ServerHandler::auth_publickey on connection p
peer_auth_publickey(p) ==
    \E m \in PeerIncoming(p) :
       /\ m.type = "auth"
       /\ peers' = [peers EXCEPT
                      ![p].recv = Append(@, m),
                      ![p].sent = Append(@, AuthReply(AuthVerdict(m.user, m.key)))]
       /\ UNCHANGED <<link_vars, calls, spc, serr>>

\* ServerHandler::channel_open_session on connection p
peer_channel_open_session(p) ==
    \E m \in PeerIncoming(p) :
       /\ m.type = "open"
       /\ peers' = [peers EXCEPT
                      ![p].recv = Append(@, m),
                      ![p].chan[m.ch] = "Open",
                      ![SessionOf(p)].sent = @ \o <<Success(m.ch), OpenConfirm(m.ch)>>]
       /\ UNCHANGED <<link_vars, calls, spc, serr>>

\* ServerHandler::channel_close on connection p
peer_channel_close(p) ==
    \E m \in PeerIncoming(p) :
       /\ m.type = "close"
       /\ peers' = [peers EXCEPT
                      ![p].recv = Append(@, m),
                      ![p].chan[m.ch] = "Closed"]
       /\ UNCHANGED <<link_vars, calls, spc, serr>>

\* ServerHandler::data on connection p; an Err ends the task of that connection
peer_data(p) ==
    \E m \in PeerIncoming(p) :
       /\ m.type = "data"
       /\ peers' = [peers EXCEPT
                      ![p].recv = Append(@, m),
                      ![p].state = IF DataResult(m.data) = "Ok" THEN @ ELSE "aborted",
                      ![SessionOf(p)].sent = @ \o DataReply(m.ch, m.data)]
       /\ UNCHANGED <<link_vars, calls, spc, serr>>

NextServer ==
    \/ ServerLoadKey
    \/ RunOnAddress
    \/ \E p \in Peers : new_client(p)
    \/ \E p \in Peers : peer_gone(p)
    \/ \E p \in Peers : peer_auth_publickey(p)
    \/ \E p \in Peers : peer_channel_open_session(p)
    \/ \E p \in Peers : peer_channel_close(p)
    \/ \E p \in Peers : peer_data(p)

SpecServer == InitServer /\ [][NextServer]_vars

(***************************************************************************)
(* Properties                                                              *)
(***************************************************************************)
Pair == client_kind = "Session" /\ server_kind = "ServerHandler"

Count(q, t) == Len(SelectSeq(q, LAMBDA m : m.type = t))

\* where the confirmation of the channel open is in s2c, 0 if nowhere
OpenPos ==
    IF \E i \in 1..Len(s2c) : s2c[i].type = "open_confirmation"
    THEN CHOOSE i \in 1..Len(s2c) : s2c[i].type = "open_confirmation"
    ELSE 0

\* the events the peer sent on the channel after confirming it, and how many of
\* them the receive loop has taken
Events == IF OpenPos = 0 THEN <<>> ELSE SubSeq(s2c, OpenPos + 1, Len(s2c))
Taken == IF OpenPos = 0 \/ rd < OpenPos THEN 0 ELSE rd - OpenPos

RECURSIVE Concat(_)
Concat(q) == IF q = <<>> THEN <<>> ELSE Head(q).data \o Concat(Tail(q))

\* C1: against the reference server and with no loss of the connection, a send of
\* valid text that returns Ok returns exactly "Server processed: " followed by
\* the payload
C1_RoundTrip ==
    (Pair /\ IsUtf8(input_data) /\ send_ret = "Ok" /\ conn # "lost")
        => received_data = ServerPrefix \o input_data

C1_Witness ==
    /\ Pair
    /\ input_data = <<102, 195, 169>>
    /\ send_ret = "Ok"
    /\ conn = "timeout"
    /\ received_data = ServerPrefix \o <<102, 195, 169>>

\* C2: when the events on the channel are N data chunks and then an exit status,
\* and the loop has come to the exit status, it has taken nothing after it, send
\* has returned Ok and the result is the N chunks concatenated in order
C2_StopsAtExitStatus ==
    client_kind = "Session" =>
        \A k \in 1..Len(Events) :
            (/\ Events[k].type = "exit_status"
             /\ \A j \in 1..(k - 1) : Events[j].type = "data"
             /\ Taken >= k)
                => /\ Taken = k
                   /\ cpc # "loop"
                   /\ send_ret = "Ok"
                   /\ received_data = Concat(SubSeq(Events, 1, k - 1))

C2_Witness ==
    /\ client_kind = "Session"
    /\ Events = <<Data(ClientChannel, <<98, 99>>), Data(ClientChannel, <<97>>),
                  ExitStatus(ClientChannel, 0), Data(ClientChannel, <<97>>)>>
    /\ send_ret = "Ok"
    /\ received_data = <<98, 99, 97>>

\* C3 (as claimed): once the loop has taken a Closed event it takes no further
\* event and is no longer waiting
C3_ClosedIsTerminal ==
    client_kind = "Session" =>
        \A k \in 1..Len(Events) :
            (Events[k].type = "close" /\ Taken >= k) => (Taken = k /\ cpc # "loop")

\* C4 (as claimed): when the loop finds the connection gone, send returns an error
C4_LostIsError ==
    [][(cpc = "loop" /\ StreamEnded /\ cpc' # "loop") => send_ret' = "Err"]_vars

\* C5 (as claimed): run_client sending "foo" to the reference server, with no
\* loss of the connection, gets "Server processed: foo" from send and then
\* closes a live connection: it ends done, disconnected by its own close
C5_EndToEnd ==
    (Pair /\ input_data = foo /\ conn # "lost" /\ send_ret = "Ok" /\ cpc \in {"done", "exit"})
        => /\ received_data = ServerPrefix \o foo
           /\ cpc = "done"
           /\ err = "none"
           /\ conn = "disconnected"

\* C6: once the peer has rejected the key, one authentication request has been
\* sent and no channel open; connect fails with AuthenticationFailed and send is
\* never entered
C6_AuthRejected ==
    (client_kind = "Session" /\ Count(s2c, "auth_failure") > 0)
        => /\ Count(c2s, "auth") = 1
           /\ Count(c2s, "open") = 0
           /\ send_ret = "none"
           /\ cpc \in {"auth_wait", "exit"}
           /\ auth_res = "false" => (cpc = "exit" /\ err = "AuthenticationFailed")
           /\ cpc = "exit" => auth_res = "false"

C6_Witness ==
    /\ client_kind = "Session"
    /\ auth_res = "false"
    /\ cpc = "exit"
    /\ err = "AuthenticationFailed"

\* the message the server end handles in this step, when srd' = srd + 1
Handled == c2s'[srd']

HandlerStep == server_kind = "ServerHandler" /\ srd' = srd + 1

\* C7 (as claimed): a data event that is not valid text on an Open channel gets
\* no response and leaves the connection up and every channel as it was
C7_EncodingErrorIsLocal ==
    [][(/\ HandlerStep
        /\ Handled.type = "data"
        /\ ~IsUtf8(Handled.data)
        /\ chan[Handled.ch] = "Open")
           => (s2c' = s2c /\ conn' = "up" /\ chan' = chan)]_vars

\* C8: send requests one channel open; the payload is written once, and only
\* after the confirmation has been read; after a refusal send has failed with
\* ChannelOpenFailure, nothing was written and nothing more was read
C8_OpenBeforeWrite ==
    client_kind = "Session" =>
        /\ Count(c2s, "open") <= 1
        /\ cpc \in {"open_wait", "write", "loop"} => Count(c2s, "open") = 1
        /\ send_ret = "Ok" => Count(c2s, "open") = 1
        /\ Count(c2s, "data") <= 1
        /\ Count(c2s, "data") = 1 =>
              /\ OpenPos > 0
              /\ rd >= OpenPos
              /\ Count(c2s, "open") = 1
              /\ \A i \in 1..rd : s2c[i].type # "open_failure"
        /\ \A i \in 1..rd :
              s2c[i].type = "open_failure" =>
                  /\ rd = i
                  /\ cpc = "exit"
                  /\ err = "ChannelOpenFailure"
                  /\ send_ret = "Err"
                  /\ Count(c2s, "data") = 0
                  /\ received_data = <<>>

C8_Witness ==
    /\ client_kind = "Session"
    /\ rd > 0
    /\ s2c[rd].type = "open_failure"
    /\ err = "ChannelOpenFailure"

C8_WitnessWritten ==
    /\ client_kind = "Session"
    /\ Count(c2s, "data") = 1
    /\ cpc = "loop"

\* responses on channel c in what the server has transmitted
Responses(q, c) == Len(SelectSeq(q, LAMBDA m : m.type = "data" /\ m.ch = c))

\* C9 (as claimed): a response goes out on a channel only in the step that
\* handles a valid data event on that channel while the channel is Open, one
\* response for one event
C9_ResponseOnlyToDataOnOpen ==
    [][server_kind = "ServerHandler" =>
          \A c \in ChannelIds :
              Responses(s2c', c) # Responses(s2c, c)
                  => /\ HandlerStep
                     /\ Handled.type = "data"
                     /\ Handled.ch = c
                     /\ IsUtf8(Handled.data)
                     /\ chan[c] = "Open"
                     /\ Responses(s2c', c) = Responses(s2c, c) + 1]_vars

\* C10 (as claimed): a data event for a channel whose close was notified gets
\* no response and does not end the connection
C10_NoDataAfterClose ==
    [][(/\ HandlerStep
        /\ Handled.type = "data"
        /\ chan[Handled.ch] = "Closed")
           => (s2c' = s2c /\ conn' = "up")]_vars

\* a is the beginning of b
IsPrefix(a, b) == Len(a) <= Len(b) /\ SubSeq(b, 1, Len(a)) = a

LastCall == IF calls = <<>> THEN "" ELSE calls[Len(calls)]
Called(name) == \E i \in 1..Len(calls) : calls[i] = name

\* C12 (as claimed): the value send returns holds the accumulated bytes, and
\* the exit code when the loop ended on an exit status, no code otherwise
C12_OutcomeCarriesExitCode ==
    (client_kind = "Session" /\ outcome.returned)
        => /\ outcome.bytes = received_data
           /\ outcome.code = IF rd > 0 /\ s2c[rd].type = "exit_status"
                             THEN s2c[rd].code ELSE -1

\* C13: connect loads the key, then negotiates the connection, then
\* authenticates; a failed key load is its only call, a failed negotiation its
\* last one, and no authentication request goes out without a connection
C13_ConnectOrder ==
    client_kind = "Session" =>
        /\ \A i \in 1..Len(calls) :
              /\ calls[i] = "load_secret_key" => i = 1
              /\ calls[i] = "client::connect" => (i = 2 /\ calls[1] = "load_secret_key")
              /\ calls[i] = "authenticate_publickey"
                    => (i = 3 /\ calls[2] = "client::connect" /\ conn # "none")
        /\ err = "KeyLoadError"
              => (calls = <<"load_secret_key">> /\ conn = "none" /\ c2s = <<>>)
        /\ err = "ConnectError"
              => (calls = <<"load_secret_key", "client::connect">>
                  /\ conn = "none" /\ c2s = <<>>)
        /\ Count(c2s, "auth") > 0 => Called("authenticate_publickey")

C13_Witness ==
    /\ client_kind = "Session"
    /\ err = "ConnectError"
    /\ cpc = "exit"
    /\ calls = <<"load_secret_key", "client::connect">>

\* C14: once close has been called the connection is no longer up, whether
\* the disconnect was sent (done) or close returned its error (exit)
C14_CloseReleases ==
    (client_kind = "Session" /\ Called("disconnect"))
        => /\ conn # "up"
           /\ LastCall = "disconnect"
           /\ cpc \in {"done", "exit"}
           /\ cpc = "done" => (conn = "disconnected" /\ err = "none")
           /\ cpc = "exit" => err = "SendError"

C14_Witness ==
    /\ client_kind = "Session"
    /\ cpc = "done"
    /\ conn = "disconnected"
    /\ LastCall = "disconnect"

C14_WitnessError ==
    /\ client_kind = "Session"
    /\ cpc = "exit"
    /\ err = "SendError"
    /\ LastCall = "disconnect"
    /\ conn = "timeout"

\* C17: a message that is neither Data nor ExitStatus leaves received_data as
\* it was and the loop waiting; received_data changes only by the append of
\* the data of the Data message in hand
C17_OtherEventsIgnored ==
    [][client_kind = "Session" =>
          /\ (cpc = "loop" /\ rd' = rd + 1 /\ s2c[rd'].type \notin {"data", "exit_status"})
                => (received_data' = received_data /\ cpc' = "loop" /\ send_ret' = send_ret)
          /\ received_data' # received_data
                => /\ cpc = "extend"
                   /\ s2c[rd].type = "data"
                   /\ rd' = rd
                   /\ received_data' = received_data \o s2c[rd].data]_vars

C17_Witness ==
    /\ client_kind = "Session"
    /\ Events = <<Eof(ClientChannel), Data(ClientChannel, <<97>>), Close(ClientChannel)>>
    /\ Taken = 3
    /\ cpc = "loop"
    /\ received_data = <<97>>

\* the length of the Data in hand, 0 when the last message taken is not Data
InHand == IF rd > 0 /\ s2c[rd].type = "data" THEN Len(s2c[rd].data) ELSE 0

\* C18: received_data is always the beginning of what was written to stdout
\* and is behind it by no more than the data in hand: by all of it between the
\* write and the append, by nothing while the loop waits; a failed write or
\* flush is the last call send makes, and send returns Err with no value
C18_SinkBeforeAccumulate ==
    client_kind = "Session" =>
        /\ IsPrefix(received_data, sink)
        /\ Len(sink) - Len(received_data) <= InHand
        /\ cpc \in {"flush", "extend"} => sink = received_data \o Chunk
        /\ cpc \in {"loop", "write_all", "close", "done"} => sink = received_data
        /\ err = "IoError"
              => /\ cpc = "exit"
                 /\ send_ret = "Err"
                 /\ ~outcome.returned
                 /\ LastCall \in {"stdout.write_all", "stdout.flush"}
                 /\ LastCall = "stdout.flush" => sink = received_data \o Chunk
        /\ outcome.returned => outcome.bytes = sink

C18_Witness ==
    /\ client_kind = "Session"
    /\ err = "IoError"
    /\ LastCall = "stdout.write_all"
    /\ received_data = <<97>>
    /\ sink = <<97, 98>>

\* valid data events among the first n messages of q, on channel c
ValidData(q, n, c) ==
    Len(SelectSeq(SubSeq(q, 1, n),
                  LAMBDA m : m.type = "data" /\ m.ch = c /\ IsUtf8(m.data)))

\* C19: ServerHandler transmits nothing but the authentication reply, the
\* acknowledgement of the open and at most one response per valid data event;
\* the Session transmits nothing but its authentication, one open and one
\* payload; so against ServerHandler send returns Ok only with the connection
\* gone and everything read, and no exit status is ever there to be read
C19_NobodyEndsTheChannel ==
    /\ server_kind = "ServerHandler" =>
          /\ \A i \in 1..Len(s2c) :
                s2c[i].type \in {"auth_success", "success", "open_confirmation", "data"}
          /\ \A c \in ChannelIds : Responses(s2c, c) <= ValidData(c2s, srd, c)
    /\ client_kind = "Session" =>
          /\ \A i \in 1..Len(c2s) : c2s[i].type \in {"auth", "open", "data"}
          /\ \A i \in 1..Len(calls) :
                calls[i] \in {"load_secret_key", "client::connect", "authenticate_publickey",
                              "channel_open_session", "channel.data", "channel.wait",
                              "stdout.write_all", "stdout.flush", "disconnect"}
          /\ Count(c2s, "data") <= 1
    /\ (Pair /\ send_ret = "Ok") =>
          /\ conn \in {"lost", "timeout", "aborted"}
          /\ rd = Len(s2c)
          /\ s2c[rd].type # "exit_status"

C19_Witness ==
    /\ Pair
    /\ send_ret = "Ok"
    /\ conn = "timeout"
    /\ received_data = Response(foo)
    /\ Count(c2s, "data") = 1

\* no connection has come in
NoneAccepted == \A p \in Peers : peers[p] = NoPeer

\* C15: run_server returns only with the error of the key load or of the
\* bind; after a key-load error no bind was attempted, after either error no
\* connection was accepted, and while connections are served it has not returned
C15_ReturnsOnlyStartupError ==
    /\ spc = "exit" => serr \in {"KeyLoadError", "BindError"}
    /\ serr # "none" => (spc = "exit" /\ NoneAccepted)
    /\ serr = "KeyLoadError" => calls = <<"load_secret_key">>
    /\ serr = "BindError" => calls = <<"load_secret_key", "run_on_address">>
    /\ ~NoneAccepted => (spc = "serving" /\ calls = <<"load_secret_key", "run_on_address">>)

C15_Witness ==
    /\ spc = "exit"
    /\ serr = "KeyLoadError"
    /\ calls = <<"load_secret_key">>

C15_WitnessBind ==
    /\ spc = "exit"
    /\ serr = "BindError"

C15_WitnessServing ==
    /\ spc = "serving"
    /\ \A p \in Peers : peers[p].state \in {"gone", "aborted"}

\* the user names a peer authenticates with
Users == {"username", "root"}

\* C16: for every user and key, in every state the server can be in, the
\* verdict of auth_publickey is Accept; on every connection every
\* authentication request got auth_success and none got auth_failure, and no
\* connection ended on an authentication request
C16_AuthAlwaysAccepts ==
    /\ \A u \in Users, k \in Keys : AuthVerdict(u, k) = TRUE
    /\ \A p \in Peers :
          /\ Count(peers[p].sent, "auth_success") = Count(peers[p].recv, "auth")
          /\ Count(peers[p].sent, "auth_failure") = 0
          /\ peers[p].state = "aborted" =>
                peers[p].recv[Len(peers[p].recv)].type = "data"

C16_Witness ==
    /\ peers[1].recv = <<AuthMsg("username", "K1"), DataMsg(ClientChannel, <<111>>)>>
    /\ peers[2].recv = <<AuthMsg("username", "K1"), AuthMsg("root", "K2")>>
    /\ peers[2].sent = <<AuthReply(TRUE), AuthReply(TRUE)>>

\* the responses transmitted on connection p
DataSent(p) == SelectSeq(peers[p].sent, LAMBDA m : m.type = "data")

\* the responses that the data events in q call for, in order
RECURSIVE Echoes(_)
Echoes(q) ==
    IF q = <<>> THEN <<>>
    ELSE LET m == Head(q)
         IN (IF m.type = "data" /\ IsUtf8(m.data)
             THEN <<Data(m.ch, Response(m.data))>>
             ELSE <<>>) \o Echoes(Tail(q))

\* connection p is as its own events alone make it
OwnEventsOnly(p) ==
    /\ peers[p].state # "none" => peers[p].handler = "ServerHandler"
    /\ DataSent(p) = Echoes(peers[p].recv)
    /\ Len(peers[p].sent) =
          Count(peers[p].recv, "auth") + 2 * Count(peers[p].recv, "open")
          + Len(Echoes(peers[p].recv))

\* C11: under every interleaving a step changes the state and the responses
\* of at most one connection, and the responses transmitted on a connection are
\* those its own data events call for, whatever the other connections received
C11_ConnectionsIsolated ==
    [][/\ \A p \in Peers :
             peers'[p] # peers[p] => \A q \in Peers \ {p} : peers'[q] = peers[q]
       /\ \A p \in Peers : OwnEventsOnly(p)']_vars

C11_Witness ==
    /\ peers[1].state = "up"
    /\ peers[1].handler = "ServerHandler"
    /\ peers[2].handler = "ServerHandler"
    /\ DataSent(1) = <<Data(ClientChannel, Response(<<111>>))>>
    /\ peers[2].state = "aborted"
    /\ DataSent(2) = <<>>
    /\ peers[2].recv[Len(peers[2].recv)] = DataMsg(ClientChannel, <<255>>)

====
